---- MODULE Spec2Model ----
(***************************************************************************)
(* State-machine model of the 1-wire bus-master driver                     *)
(* (drivers/onewire/onewire.c, first revision in the file, lines 1-298,    *)
(* with drivers/onewire/include/onewire.h).                                *)
(*                                                                         *)
(* The driver is sequential; the model follows its control flow with a     *)
(* program counter and a call stack.  The bus (the slaves and the line) is *)
(* the environment: it is drawn from small sets and every deviation from   *)
(* a fault-free bus is counted in hist.nfaults.                            *)
(***************************************************************************)
EXTENDS Integers, Sequences, FiniteSets

\* ------------------------------------------------------------------------
\* Program constants
\* ------------------------------------------------------------------------
ONEWIRE_RESULT_OK == 0
ONEWIRE_RESULT_COMM_ERROR == 1
ONEWIRE_RESULT_NO_DEVICES == 2
ONEWIRE_RESULT_TOO_MANY_DEVICES == 3
\* __ONEWIRE_RESULT_MAX, the enumerator after the last result
ONEWIRE_RESULT_MAX == 4
ONEWIRE_NL_CMD_SEARCH_ROM == 15
\* for (position = 0; position < 64; position++)
AddrBits == 64
\* if (port->tpdh_quarters > 6)
TpdhLimit == 6
\* if (port->tpdl_quarters > 18)
TpdlLimit == 18
\* if (port->tpdl_quarters < 3)
TpdlMin == 3

\* ------------------------------------------------------------------------
\* Bounds of the model
\* ------------------------------------------------------------------------
\* max_devices ranges over 0..MaxDevices
MaxDevices == 3
\* at most MaxBusDevs slaves share the line
MaxBusDevs == 3
\* slave addresses differ in VarBits bit positions
VarBits == 2
\* deviations from the fault-free bus per call
MaxFaults == 1
\* calls made on one port
MaxCalls == 2
\* quarter-timeslots a present slave leaves the line high after the reset
PresenceHigh == 1
\* quarter-timeslots a present slave holds the line low (its presence pulse)
PresenceLow == 4
\* length of a presence pulse that is too short
ShortLow == 2
\* a port with max_devices = 0 is searched on a bus of at most this many
\* slaves (such a search makes 256 passes)
ZeroTableBusDevs == 1
\* deviations from the fault-free bus per call on a port with max_devices = 0
ZeroTableFaults == 0
\* onewire_error_to_string is called with 0..MaxResult
MaxResult == 255

\* ------------------------------------------------------------------------
\* uint8_t arithmetic
\* ------------------------------------------------------------------------
U8(x) == x % 256

Bit(v, i) == (v \div (2 ^ i)) % 2

\* v | (b << i) on a byte
OrBit(v, i, b) == IF b = 1 /\ Bit(v, i) = 0 THEN U8(v + 2 ^ i) ELSE v

\* bitwise a & b and a | b for a, b in {0, 1}
And1(a, b) == IF a = 1 /\ b = 1 THEN 1 ELSE 0
Or1(a, b) == IF a = 1 \/ b = 1 THEN 1 ELSE 0

\* ------------------------------------------------------------------------
\* onewire_address_t: uint8_t a[8]
\* ------------------------------------------------------------------------
ZeroAddr == [i \in 0 .. 7 |-> 0]

\* bit `position' of an address: byte position / 8, bit position % 8
AddrBit(a, position) == Bit(a[position \div 8], position % 8)

\* faulty variant of AddrOrBit: the bits of a byte stored most significant
\* bit first
AddrOrBitMsbFirst(a, position, next_bit) ==
    [a EXCEPT ![position \div 8] =
        OrBit(a[position \div 8], 7 - (position % 8), next_bit)]

\* devices[..].a[position / 8] |= next_bit << (position % 8)
AddrOrBit(a, position, next_bit) ==
    [a EXCEPT ![position \div 8] = OrBit(a[position \div 8], position % 8, next_bit)]

\* ------------------------------------------------------------------------
\* The slaves on the line (environment)
\* ------------------------------------------------------------------------
\* the j-th bit position in which the slave addresses of the model differ
VarPos(j) == 9 * j

\* 11:22:33:44:55:66:77:88, the address of the spec's single-device test
BaseAddr == [i \in 0 .. 7 |-> 17 * (i + 1)]

BaseByte(c, i) ==
    LET RECURSIVE Put(_, _)
        Put(v, j) ==
            IF j = VarBits THEN v
            ELSE IF VarPos(j) \div 8 # i THEN Put(v, j + 1)
            ELSE LET k == VarPos(j) % 8
                     cleared == v - Bit(v, k) * 2 ^ k
                 IN Put(cleared + Bit(c, j) * 2 ^ k, j + 1)
    IN Put(BaseAddr[i], 0)

\* the slave address whose variable bits spell c
SlaveAddr(c) == [i \in 0 .. 7 |-> BaseByte(c, i)]

AddrPool == {SlaveAddr(c) : c \in 0 .. 2 ^ VarBits - 1}

BusSets == {s \in SUBSET AddrPool : Cardinality(s) <= MaxBusDevs}

\* the buses a port with a table of md entries is searched on
BusSetsFor(md) ==
    IF md = 0 THEN {s \in BusSets : Cardinality(s) <= ZeroTableBusDevs}
    ELSE BusSets

\* The line after the master releases the reset pulse, as the k-th gpio_read
\* of reset_pulse sees it (1 high, 0 low)
Profiles == {"presence", "short", "absent", "stucklow"}

LineLevel(profile, k) ==
    CASE profile = "presence" ->
           IF k <= PresenceHigh THEN 1
           ELSE IF k <= PresenceHigh + PresenceLow THEN 0 ELSE 1
      [] profile = "short" ->
           IF k <= PresenceHigh THEN 1
           ELSE IF k <= PresenceHigh + ShortLow THEN 0 ELSE 1
      [] profile = "absent" -> 1
      [] OTHER -> 0

\* what a fault-free bus does: a presence pulse iff a slave is there
ExpectedProfile(devs) == IF devs = {} THEN "absent" ELSE "presence"

\* the bits of a byte in the order slaves send and expect them (LSB first)
LsbFirst(b) == [i \in 1 .. 8 |-> Bit(b, i - 1)]

\* the line during a read timeslot: wired AND of what the slaves drive
\* phase 0: the address bit, phase 1: its complement
BusSample(b, phase) ==
    CASE b.mode = "search" ->
           IF \E d \in b.active :
                 (IF phase = 0 THEN AddrBit(d, b.sbit) ELSE 1 - AddrBit(d, b.sbit)) = 0
           THEN 0 ELSE 1
      [] b.mode = "tx" -> Bit(b.txbyte, b.sbit)
      [] OTHER -> 1

\* the slaves after a reset pulse of the master
BusReset(b, profile) ==
    [b EXCEPT !.mode = "cmd", !.cmdbuf = <<>>, !.active = {}, !.sbit = 0,
              !.profile = profile]

\* the slaves after a write timeslot carrying bit v
BusWrite(b, v) ==
    CASE b.mode = "cmd" ->
           LET buf == Append(b.cmdbuf, v)
           IN IF Len(buf) < 8 THEN [b EXCEPT !.cmdbuf = buf]
              ELSE IF buf = LsbFirst(ONEWIRE_NL_CMD_SEARCH_ROM)
              THEN [b EXCEPT !.cmdbuf = buf, !.mode = "search",
                             !.active = b.devs, !.sbit = 0]
              ELSE [b EXCEPT !.cmdbuf = buf, !.mode = "idle"]
      [] b.mode = "search" ->
           LET left == {d \in b.active : AddrBit(d, b.sbit) = v}
           IN IF b.sbit + 1 < AddrBits
              THEN [b EXCEPT !.active = left, !.sbit = b.sbit + 1]
              ELSE [b EXCEPT !.active = {}, !.sbit = 0, !.mode = "idle"]
      [] OTHER -> b

\* the slaves after a read timeslot
BusRead(b) ==
    IF b.mode = "tx"
    THEN IF b.sbit + 1 < 8 THEN [b EXCEPT !.sbit = b.sbit + 1]
         ELSE [b EXCEPT !.sbit = 0, !.mode = "idle"]
    ELSE b

RECURSIVE BusWriteBits(_, _)
\* the slaves after the write timeslots carrying bits, one after the other
\* (x binds the bus after the first of them, so that it is computed once)
BusWriteBits(b, bits) ==
    IF bits = <<>> THEN b
    ELSE CHOOSE r \in {BusWriteBits(x, Tail(bits)) :
                          x \in {BusWrite(b, Head(bits))}} : TRUE

\* ------------------------------------------------------------------------
\* State
\* ------------------------------------------------------------------------
VARIABLES
    pc,     \* where the driver is: "idle", "pass", "reset", "spin_high", ...
    stack,  \* return addresses of the calls in progress
    op,     \* the entry point that was called
    ret,    \* the value the last call returned (read when pc = "done")
    port,   \* struct onewire_port
    loc,    \* the locals of onewire_search
    oct,    \* the argument and locals of send_command / read_octet
    bus,    \* the slaves and the line
    hist    \* history: the port at the call, faults, counters

vars == <<pc, stack, op, ret, port, loc, oct, bus, hist>>

\* ONEWIRE_PORT_STATIC_ALLOC(_name, md): a zeroed static table of md entries,
\* .max_devices = md, .num_devices = 0
\* behind: the memory behind the table, slot by slot, as far as the driver
\* has written it
NewPort(md) ==
    [tpdh_quarters |-> 0, tpdl_quarters |-> 0,
     max_devices |-> md, num_devices |-> 0,
     devices |-> [i \in 0 .. md - 1 |-> ZeroAddr],
     behind |-> [i \in {} |-> ZeroAddr]]

\* port->devices[i] as the code addresses it: an entry of the table or, for
\* i >= max_devices, the memory behind the table
Slot(p, i) == IF i \in DOMAIN p.devices THEN p.devices[i] ELSE p.behind[i]

\* port->devices[i] = a
StoreSlot(p, i, a) ==
    IF i \in DOMAIN p.devices
    THEN [p EXCEPT !.devices[i] = a]
    ELSE [p EXCEPT !.behind = [k \in DOMAIN p.behind \cup {i} |->
                                  IF k = i THEN a ELSE p.behind[k]]]

NewBus(devs) ==
    [devs |-> devs, mode |-> "idle", active |-> {}, cmdbuf |-> <<>>,
     sbit |-> 0, profile |-> "absent", txbyte |-> 0]

NewLoc ==
    [result |-> 0, value |-> 0, inv_value |-> 0,
     current_split_position |-> 0, last_split_position |-> U8(-1),
     next_bit |-> 0, device_position |-> 0, position |-> 0]

NewOct == [cmd |-> 0, value |-> 0, i |-> 0, result |-> 0]

\* pre: the port when the call was made; budget: the deviations from a
\* fault-free bus the environment may still make in a call; nfaults: those it
\* made in this call; lastReset: what the last reset_pulse returned; resets,
\* wbits, sent: reset pulses, write timeslots and the octet written since the
\* pass (or the call) began; readErr: a read timeslot of this call reported
\* ONEWIRE_RESULT_COMM_ERROR; prev: what the call before this one returned
NewHist(p, calls, budget) ==
    [pre |-> p, budget |-> budget, nfaults |-> 0, calls |-> calls,
     lastReset |-> 0, resets |-> 0, wbits |-> 0, readErr |-> FALSE,
     sent |-> <<>>, prev |-> <<>>]

\* the deviations a call on a port with a table of md entries may meet
BudgetFor(md) == IF md = 0 THEN ZeroTableFaults ELSE MaxFaults

InitCommon ==
    /\ pc = "idle"
    /\ stack = <<>>
    /\ op = "none"
    /\ ret = 0
    /\ loc = NewLoc
    /\ oct = NewOct

\* any port, any bus, faults allowed
Init ==
    /\ InitCommon
    /\ \E md \in 0 .. MaxDevices : port = NewPort(md)
    /\ \E devs \in BusSetsFor(port.max_devices) : bus = NewBus(devs)
    /\ hist = NewHist(port, 0, BudgetFor(port.max_devices))

\* any port, any bus, and the bus is fault-free
InitFF ==
    /\ InitCommon
    /\ \E md \in 0 .. MaxDevices : port = NewPort(md)
    /\ \E devs \in BusSetsFor(port.max_devices) : bus = NewBus(devs)
    /\ hist = NewHist(port, 0, 0)

\* one port, no slave or one slave, faults allowed: for the octet primitives
InitIO ==
    /\ InitCommon
    /\ port = NewPort(1)
    /\ \E devs \in {{}, {SlaveAddr(0)}} : bus = NewBus(devs)
    /\ hist = NewHist(port, 0, MaxFaults)

\* ------------------------------------------------------------------------
\* reset_pulse
\* ------------------------------------------------------------------------
Faults(b) == IF b THEN 1 ELSE 0

\* the return of reset_pulse to its caller
\*   "search":       result = reset_pulse(port); if (result) return result;
\*                   onewire_send_command(port, ONEWIRE_NL_CMD_SEARCH_ROM);
\*   "send_command": reset_pulse(port); write_octet(port, cmd);
ResetReturn(res) ==
    LET caller == stack[Len(stack)]
        rest == SubSeq(stack, 1, Len(stack) - 1)
    IN /\ hist' = [hist EXCEPT !.lastReset = res]
       /\ IF caller = "search"
          THEN /\ loc' = [loc EXCEPT !.result = res]
               /\ IF res # ONEWIRE_RESULT_OK
                  THEN /\ pc' = "done"
                       /\ ret' = res
                       /\ stack' = rest
                       /\ oct' = oct
                  ELSE /\ pc' = "send_command"
                       /\ ret' = ret
                       /\ stack' = Append(rest, "search_cmd")
                       /\ oct' = [oct EXCEPT !.cmd = ONEWIRE_NL_CMD_SEARCH_ROM]
          ELSE /\ pc' = "send_command_write"
               /\ stack' = rest
               /\ UNCHANGED <<ret, loc, oct>>

\* lines 66-81: drive the line low for 10 timeslots, release it, start counting
ResetBegin ==
    /\ pc = "reset"
    /\ \E profile \in Profiles :
          LET fault == profile # ExpectedProfile(bus.devs)
          IN /\ hist.nfaults + Faults(fault) <= hist.budget
             /\ bus' = BusReset(bus, profile)
             /\ hist' = [hist EXCEPT !.nfaults = @ + Faults(fault),
                                     !.resets = @ + 1]
    /\ port' = [port EXCEPT !.tpdh_quarters = 1, !.tpdl_quarters = 0]
    /\ pc' = "spin_high"
    /\ UNCHANGED <<stack, op, ret, loc, oct>>

\* the number of the next gpio_read of reset_pulse
SampleNo == port.tpdh_quarters + port.tpdl_quarters

TpdhExceeded(tpdh) == tpdh > TpdhLimit

TpdlExceeded(tpdl) == tpdl > TpdlLimit

\* faulty variant of TpdlTooShort: the width check one quarter too lenient
TpdlTooShortOffByOne(tpdl) == tpdl < TpdlMin - 1

TpdlTooShort(tpdl) == tpdl < TpdlMin

\* lines 82-88: one turn of "spin until line is low"
ResetSpinHigh ==
    /\ pc = "spin_high"
    /\ LET tpdh == port.tpdh_quarters + 1
       IN /\ port' = [port EXCEPT !.tpdh_quarters = tpdh]
          /\ IF TpdhExceeded(tpdh)
             THEN ResetReturn(ONEWIRE_RESULT_COMM_ERROR)
             ELSE /\ pc' = IF LineLevel(bus.profile, SampleNo) = 1
                           THEN "spin_high" ELSE "spin_low"
                  /\ UNCHANGED <<stack, ret, loc, oct, hist>>
    /\ UNCHANGED <<op, bus>>

\* lines 90-104: one turn of "spin until line is high", then the width check
ResetSpinLow ==
    /\ pc = "spin_low"
    /\ LET tpdl == port.tpdl_quarters + 1
       IN /\ port' = [port EXCEPT !.tpdl_quarters = tpdl]
          /\ IF TpdlExceeded(tpdl)
             THEN ResetReturn(ONEWIRE_RESULT_COMM_ERROR)
             ELSE IF LineLevel(bus.profile, SampleNo) = 0
             THEN /\ pc' = "spin_low"
                  /\ UNCHANGED <<stack, ret, loc, oct, hist>>
             ELSE IF TpdlTooShort(tpdl)
             THEN ResetReturn(ONEWIRE_RESULT_COMM_ERROR)
             ELSE ResetReturn(ONEWIRE_RESULT_OK)
    /\ UNCHANGED <<op, bus>>

\* ------------------------------------------------------------------------
\* write_octet, read_or_bit_lsb, onewire_send_command
\* ------------------------------------------------------------------------
\* the bits write_octet hands to write_bit, in order:
\*   for (i = 0; i < 8; i++) { write_bit(port, value & 1); value >>= 1; }
RECURSIVE WriteOctetBits(_, _)
WriteOctetBits(value, i) ==
    IF i = 8 THEN <<>>
    ELSE <<value % 2>> \o WriteOctetBits(value \div 2, i + 1)

\* read_or_bit_lsb(port, &value): sample is the line 9 us into the timeslot,
\* endHigh whether the line is high again when the timeslot is over
ReadOrBitLsb(value, sample, endHigh) ==
    [value |-> IF sample = 1 /\ value % 2 = 0 THEN value + 1 ELSE value,
     result |-> IF ~endHigh THEN ONEWIRE_RESULT_COMM_ERROR ELSE ONEWIRE_RESULT_OK]

\* onewire_send_command, line 188: reset_pulse(port), its result dropped
SendCommand ==
    /\ pc = "send_command"
    /\ pc' = "reset"
    /\ stack' = Append(stack, "send_command")
    /\ UNCHANGED <<op, ret, port, loc, oct, bus, hist>>

\* whether send_command goes on to write the command after reset_pulse
\* returned res (the code does not look at res)
SendCommandWrites(res) == TRUE

\* onewire_send_command, line 189: write_octet(port, cmd), and the return
SendCommandWrite ==
    /\ pc = "send_command_write"
    /\ LET bits == IF SendCommandWrites(hist.lastReset)
                   THEN WriteOctetBits(oct.cmd, 0) ELSE <<>>
       IN /\ bus' = BusWriteBits(bus, bits)
          /\ hist' = [hist EXCEPT !.wbits = @ + Len(bits), !.sent = bits]
    /\ IF stack = <<>>
       THEN /\ pc' = "done"
            /\ UNCHANGED <<stack, loc>>
       ELSE /\ pc' = "bit"
            /\ stack' = SubSeq(stack, 1, Len(stack) - 1)
            /\ loc' = [loc EXCEPT !.position = 0]
    /\ UNCHANGED <<op, ret, port, oct>>

\* ------------------------------------------------------------------------
\* onewire_search
\* ------------------------------------------------------------------------
SearchReturn(res) ==
    /\ pc' = "done"
    /\ ret' = res

\* lines 202-214: the top of the do loop, up to the call of reset_pulse.
\* A write to devices[device_position] outside the table is undefined
\* behaviour.  Either the write traps and the call never returns (pc = "ub"),
\* or it lands in the memory behind the table and the search goes on; the
\* later writes of the pass go to the same bytes and go the same way.
SearchPass ==
    /\ pc = "pass"
    /\ loc' = [loc EXCEPT !.current_split_position = U8(-1)]
    /\ \/ /\ port' = StoreSlot(port, loc.device_position, ZeroAddr)
          /\ pc' = "reset"
          /\ stack' = Append(stack, "search")
       \/ /\ loc.device_position \notin DOMAIN port.devices
          /\ pc' = "ub"
          /\ UNCHANGED <<port, stack>>
    /\ hist' = [hist EXCEPT !.resets = 0, !.wbits = 0, !.sent = <<>>]
    /\ UNCHANGED <<op, ret, oct, bus>>

\* faulty variant of TakeZero: the position of the last split takes the 0 again
TakeZeroOffByOne(position, last_split_position) == position <= last_split_position

\* line 238: at a collision, select the 0 unless it is already visited
TakeZero(position, last_split_position) == position < last_split_position

\* faulty variant of NoResponseResult: position 0 not told apart
NoResponseResultAlwaysComm(position) == ONEWIRE_RESULT_COMM_ERROR

\* lines 226-234: what is returned when value & inv_value
NoResponseResult(position) ==
    IF position = 0 THEN ONEWIRE_RESULT_NO_DEVICES ELSE ONEWIRE_RESULT_COMM_ERROR

\* lines 219-255: one turn of the loop over the 64 positions
SearchBit ==
    /\ pc = "bit"
    /\ \E drop \in BOOLEAN, e1 \in BOOLEAN, e2 \in BOOLEAN :
          /\ drop => bus.active # {}
          /\ hist.nfaults + Faults(drop) + Faults(e1 \/ e2) <= hist.budget
          /\ LET b == IF drop THEN [bus EXCEPT !.active = {}] ELSE bus
                 r1 == ReadOrBitLsb(0, BusSample(b, 0), ~e1)
                 r2 == ReadOrBitLsb(0, BusSample(b, 1), ~e2)
                 value == r1.value
                 inv_value == r2.value
                 position == loc.position
                 h == [hist EXCEPT !.nfaults = @ + Faults(drop) + Faults(e1 \/ e2),
                                   !.readErr = @ \/ e1 \/ e2]
             IN IF And1(value, inv_value) = 1
                THEN /\ SearchReturn(NoResponseResult(position))
                     /\ loc' = [loc EXCEPT !.value = value, !.inv_value = inv_value]
                     /\ bus' = b
                     /\ hist' = h
                     /\ port' = port
                ELSE LET collision == Or1(value, inv_value) = 0
                         zero == collision /\ TakeZero(position, loc.last_split_position)
                         next_bit == IF collision
                                     THEN (IF zero THEN 0 ELSE 1)
                                     ELSE value
                         csp == IF zero THEN position
                                ELSE loc.current_split_position
                     IN /\ port' = StoreSlot(port, loc.device_position,
                                          AddrOrBit(Slot(port, loc.device_position),
                                                    position, next_bit))
                        /\ bus' = BusWrite(b, next_bit)
                        /\ hist' = [h EXCEPT !.wbits = @ + 1]
                        /\ loc' = [loc EXCEPT !.value = value,
                                              !.inv_value = inv_value,
                                              !.next_bit = next_bit,
                                              !.current_split_position = csp,
                                              !.position = position + 1]
                        /\ pc' = IF position + 1 < AddrBits THEN "bit" ELSE "pass_end"
                        /\ ret' = ret
    /\ UNCHANGED <<stack, op, oct>>

\* line 265: } while (current_split_position >= 0); on a uint8_t
LoopAgain(current_split_position) == current_split_position >= 0

\* faulty variant of TableFull: the capacity check one entry too late
TableFullOffByOne(device_position, max_devices) == device_position > max_devices

\* line 262: if (device_position == port->max_devices)
TableFull(device_position, max_devices) == device_position = max_devices

\* faulty variant of SearchPassEnd: num_devices saved before the capacity check
SearchPassEndEarlyCount ==
    /\ pc = "pass_end"
    /\ LET device_position == U8(loc.device_position + 1)
       IN /\ loc' = [loc EXCEPT !.last_split_position = loc.current_split_position,
                                !.device_position = device_position]
          /\ port' = [port EXCEPT !.num_devices = device_position]
          /\ IF TableFull(device_position, port.max_devices)
             THEN SearchReturn(ONEWIRE_RESULT_TOO_MANY_DEVICES)
             ELSE IF LoopAgain(loc.current_split_position)
             THEN /\ pc' = "pass"
                  /\ ret' = ret
             ELSE SearchReturn(ONEWIRE_RESULT_OK)
    /\ UNCHANGED <<stack, op, oct, bus, hist>>

\* lines 257-270: the end of a pass
SearchPassEnd ==
    /\ pc = "pass_end"
    /\ LET device_position == U8(loc.device_position + 1)
       IN /\ loc' = [loc EXCEPT !.last_split_position = loc.current_split_position,
                                !.device_position = device_position]
          /\ IF TableFull(device_position, port.max_devices)
             THEN /\ SearchReturn(ONEWIRE_RESULT_TOO_MANY_DEVICES)
                  /\ port' = port
             ELSE IF LoopAgain(loc.current_split_position)
             THEN /\ pc' = "pass"
                  /\ UNCHANGED <<ret, port>>
             ELSE /\ SearchReturn(ONEWIRE_RESULT_OK)
                  /\ port' = [port EXCEPT !.num_devices = device_position]
    /\ UNCHANGED <<stack, op, oct, bus, hist>>

\* faulty variant of CallSearch: last_split_position survives from one call
\* to the next, as a static variable would
CallSearchKeepSplit ==
    /\ pc \in {"idle", "done"}
    /\ hist.calls < MaxCalls
    /\ hist.nfaults = 0
    /\ pc' = "pass"
    /\ op' = "search"
    /\ loc' = [NewLoc EXCEPT !.last_split_position = loc.last_split_position]
    /\ hist' = [NewHist(port, hist.calls + 1, hist.budget)
                   EXCEPT !.prev = IF pc = "done" THEN <<ret>> ELSE <<>>]
    /\ UNCHANGED <<stack, ret, port, oct, bus>>

\* a call of onewire_search(port); a further call is explored after a call
\* that met no fault
CallSearch ==
    /\ pc \in {"idle", "done"}
    /\ hist.calls < MaxCalls
    /\ hist.nfaults = 0
    /\ pc' = "pass"
    /\ op' = "search"
    /\ loc' = NewLoc
    /\ hist' = [NewHist(port, hist.calls + 1, hist.budget)
                   EXCEPT !.prev = IF pc = "done" THEN <<ret>> ELSE <<>>]
    /\ UNCHANGED <<stack, ret, port, oct, bus>>

\* ------------------------------------------------------------------------
\* onewire_send_command and onewire_read_octet called on their own
\* ------------------------------------------------------------------------
\* a call of onewire_send_command(port, cmd)
CallSendCommand ==
    /\ pc = "idle"
    /\ \E cmd \in 0 .. 255 : oct' = [NewOct EXCEPT !.cmd = cmd]
    /\ pc' = "send_command"
    /\ op' = "send_command"
    /\ hist' = NewHist(port, hist.calls + 1, hist.budget)
    /\ UNCHANGED <<stack, ret, port, loc, bus>>

\* a call of onewire_read_octet(port, &value) while a slave is about to
\* transmit the byte b, least-significant bit first; line 176: *value = 0
CallReadOctet ==
    /\ pc = "idle"
    /\ \E b \in 0 .. 255 :
          bus' = [bus EXCEPT !.mode = "tx", !.txbyte = b, !.sbit = 0]
    /\ oct' = [NewOct EXCEPT !.value = 0]
    /\ pc' = "read_octet"
    /\ op' = "read_octet"
    /\ hist' = NewHist(port, hist.calls + 1, hist.budget)
    /\ UNCHANGED <<stack, ret, port, loc>>

\* line 181: *value <<= 1 on a uint8_t
ShiftAccumulator(value) == U8(value * 2)

\* lines 177-183: one turn of the loop of onewire_read_octet
ReadOctetStep ==
    /\ pc = "read_octet"
    /\ \E e \in BOOLEAN :
          /\ hist.nfaults + Faults(e) <= hist.budget
          /\ LET r == ReadOrBitLsb(oct.value, BusSample(bus, 0), ~e)
                 i == oct.i + 1
             IN /\ hist' = [hist EXCEPT !.nfaults = @ + Faults(e),
                                        !.readErr = @ \/ e]
                /\ bus' = BusRead(bus)
                /\ IF r.result # ONEWIRE_RESULT_OK
                   THEN /\ oct' = [oct EXCEPT !.value = r.value, !.result = r.result]
                        /\ pc' = "done"
                        /\ ret' = r.result
                   ELSE /\ oct' = [oct EXCEPT !.value = ShiftAccumulator(r.value),
                                              !.result = r.result, !.i = i]
                        /\ IF i < 8
                           THEN /\ pc' = "read_octet"
                                /\ ret' = ret
                           ELSE /\ pc' = "done"
                                /\ ret' = r.result
    /\ UNCHANGED <<stack, op, port, loc>>

\* ------------------------------------------------------------------------
\* onewire_error_to_string
\* ------------------------------------------------------------------------
\* static const char *onewire_result_strings[]; entry k of the C array is
\* element k + 1 of the sequence
onewire_result_strings ==
    <<"No error", "Communication Error", "Too many devices", "No such error">>

\* the index onewire_error_to_string reads the table at
ErrorStringIndex(result) ==
    IF result >= ONEWIRE_RESULT_MAX THEN ONEWIRE_RESULT_MAX ELSE result

\* what a read past the last entry of the table can give: the null pointer,
\* or a pointer to something that is none of the texts
NullPointer == "(null pointer)"
WildPointer == "(wild pointer)"

\* a call of onewire_error_to_string(result)
CallErrorToString ==
    /\ pc = "idle"
    /\ \E result \in 0 .. MaxResult : oct' = [NewOct EXCEPT !.result = result]
    /\ pc' = "error_to_string"
    /\ op' = "error_to_string"
    /\ hist' = NewHist(port, hist.calls + 1, hist.budget)
    /\ UNCHANGED <<stack, ret, port, loc, bus>>

\* lines 109-111: the table lookup and the return.  A read past the last
\* entry of the table is undefined behaviour: the call returns what lies
\* behind the table, or the read traps (pc = "ub").
ErrorToString ==
    /\ pc = "error_to_string"
    /\ LET index == ErrorStringIndex(oct.result)
       IN IF index < Len(onewire_result_strings)
          THEN /\ pc' = "done"
               /\ ret' = onewire_result_strings[index + 1]
          ELSE \/ /\ pc' = "done"
                  /\ ret' \in {NullPointer, WildPointer}
               \/ /\ pc' = "ub"
                  /\ ret' = ret
    /\ UNCHANGED <<stack, op, port, loc, oct, bus, hist>>

Next ==
    \/ CallSearch
    \/ SearchPass
    \/ ResetBegin
    \/ ResetSpinHigh
    \/ ResetSpinLow
    \/ SendCommand
    \/ SendCommandWrite
    \/ SearchBit
    \/ SearchPassEnd

Spec == Init /\ [][Next]_vars

\* onewire_search on a fault-free bus
SpecFF == InitFF /\ [][Next]_vars

\* the driver runs to completion on its thread: a step that can be taken is
\* taken
SpecLive == Init /\ [][Next]_vars /\ WF_vars(Next)

NextIO ==
    \/ CallSendCommand
    \/ CallReadOctet
    \/ ReadOctetStep
    \/ ResetBegin
    \/ ResetSpinHigh
    \/ ResetSpinLow
    \/ SendCommand
    \/ SendCommandWrite

\* the octet primitives called on their own
SpecIO == InitIO /\ [][NextIO]_vars

\* onewire_error_to_string: one port, no bus traffic
InitStr ==
    /\ InitCommon
    /\ port = NewPort(1)
    /\ bus = NewBus({})
    /\ hist = NewHist(port, 0, 0)

NextStr ==
    \/ CallErrorToString
    \/ ErrorToString

\* onewire_error_to_string applied to every result value
SpecStr == InitStr /\ [][NextStr]_vars

\* ------------------------------------------------------------------------
\* Properties
\* ------------------------------------------------------------------------
\* onewire_search has returned
SearchDone == op = "search" /\ pc = "done"

NumOnBus == Cardinality(bus.devs)

\* the first slot of the table that holds address a
Stored(a) == \E i \in DOMAIN port.devices : port.devices[i] = a

FirstSlot(a) ==
    CHOOSE i \in DOMAIN port.devices :
        /\ port.devices[i] = a
        /\ \A k \in DOMAIN port.devices : k < i => port.devices[k] # a

\* a < b as 64-bit integers, bit position 0 the least significant bit
\* (byte 7 the most significant byte)
AddrLess(a, b) ==
    \E i \in 0 .. 7 : a[i] < b[i] /\ \A j \in 0 .. 7 : j > i => a[j] = b[j]

\* the first position, in transmission order, at which a and b differ
FirstDiff(a, b) ==
    CHOOSE p \in 0 .. AddrBits - 1 :
        /\ AddrBit(a, p) # AddrBit(b, p)
        /\ \A q \in 0 .. p - 1 : AddrBit(a, q) = AddrBit(b, q)

\* C1: on a fault-free bus with N >= 1 distinct devices and max_devices >= N,
\* when onewire_search returns, table slots 0..N-1 hold pairwise distinct
\* addresses which are exactly the N device addresses.
C1_AllDevicesFound ==
    (SearchDone /\ hist.nfaults = 0 /\ NumOnBus >= 1
        /\ port.max_devices >= NumOnBus)
    => /\ \A i, j \in 0 .. NumOnBus - 1 :
             i # j => port.devices[i] # port.devices[j]
       /\ {port.devices[i] : i \in 0 .. NumOnBus - 1} = bus.devs

\* C2: on a fault-free bus with exactly one device and max_devices >= 1,
\* onewire_search returns ONEWIRE_RESULT_OK, num_devices is 1 and devices[0]
\* is the device's address.
C2_SingleDevice ==
    (SearchDone /\ hist.nfaults = 0 /\ NumOnBus = 1 /\ port.max_devices >= 1)
    => /\ ret = ONEWIRE_RESULT_OK
       /\ port.num_devices = 1
       /\ port.devices[0] \in bus.devs

\* C3 as stated: on a fault-free bus with two devices A < B (as 64-bit
\* integers, position 0 the least significant bit), A is stored in a lower
\* table slot than B.
C3_IntegerOrder ==
    (SearchDone /\ hist.nfaults = 0 /\ NumOnBus = 2 /\ port.max_devices >= 2)
    => \A a, b \in bus.devs :
          AddrLess(a, b) =>
             Stored(a) /\ Stored(b) /\ FirstSlot(a) < FirstSlot(b)

\* C3 as amended: on a fault-free bus with two devices and max_devices >= 2,
\* the device whose address has a 0 at the first position (in transmission
\* order) where the two addresses differ is stored in slot 0, the other one
\* in slot 1.
C3_TransmissionOrder ==
    (SearchDone /\ hist.nfaults = 0 /\ NumOnBus = 2 /\ port.max_devices >= 2)
    => \A a, b \in bus.devs :
          (a # b /\ AddrBit(a, FirstDiff(a, b)) = 0) =>
             port.devices[0] = a /\ port.devices[1] = b

\* C3 witness: a search of two devices has returned with the larger integer
\* in slot 0 and the smaller one in slot 1
C3_Witness ==
    /\ SearchDone /\ hist.nfaults = 0 /\ NumOnBus = 2 /\ port.max_devices >= 2
    /\ \E a, b \in bus.devs :
          /\ AddrLess(a, b)
          /\ port.devices[0] = b
          /\ port.devices[1] = a

\* C4: on a bus where the line stays high after the reset (no presence
\* pulse), reset_pulse returns ONEWIRE_RESULT_NO_DEVICES and onewire_search
\* returns ONEWIRE_RESULT_NO_DEVICES.
C4_NoDevices ==
    (SearchDone /\ bus.devs = {} /\ bus.profile = "absent" /\ hist.resets = 1)
    => /\ hist.lastReset = ONEWIRE_RESULT_NO_DEVICES
       /\ ret = ONEWIRE_RESULT_NO_DEVICES

\* C5: on a fault-free bus with more devices than max_devices >= 1,
\* onewire_search stays inside the table and what it returns is
\* ONEWIRE_RESULT_TOO_MANY_DEVICES.
C5_TooManyDevices ==
    (op = "search" /\ hist.nfaults = 0 /\ port.max_devices >= 1
        /\ NumOnBus > port.max_devices)
    => /\ pc # "ub"
       /\ pc = "done" => ret = ONEWIRE_RESULT_TOO_MANY_DEVICES

\* C5 witness: such a search has returned ONEWIRE_RESULT_TOO_MANY_DEVICES
C5_Witness ==
    /\ SearchDone /\ hist.nfaults = 0 /\ port.max_devices >= 1
    /\ NumOnBus > port.max_devices
    /\ ret = ONEWIRE_RESULT_TOO_MANY_DEVICES

\* C6: during a call of onewire_search and when it returns any result but
\* ONEWIRE_RESULT_OK, num_devices has the value it had before the call: it is
\* written on the path that returns ONEWIRE_RESULT_OK only.
C6_NumDevicesKept ==
    (op = "search" /\ pc # "ub" /\ ~(pc = "done" /\ ret = ONEWIRE_RESULT_OK))
    => port.num_devices = hist.pre.num_devices

\* C6 witness: a search that completed a pass has returned an error, and the
\* number of passes it completed is not the old num_devices
C6_Witness ==
    /\ SearchDone
    /\ ret \in {ONEWIRE_RESULT_COMM_ERROR, ONEWIRE_RESULT_TOO_MANY_DEVICES}
    /\ loc.device_position >= 1
    /\ loc.device_position # hist.pre.num_devices
    /\ port.num_devices = hist.pre.num_devices

\* C7: when onewire_search returns a result other than ONEWIRE_RESULT_OK, the
\* entries devices[0 .. k-1], k the num_devices before the call, are what they
\* were before the call.
\* (num_devices is 0 at every call the driver can see, so k is 0 throughout.)
C7_CommittedEntriesKept ==
    (SearchDone /\ ret # ONEWIRE_RESULT_OK)
    => \A i \in 0 .. hist.pre.num_devices - 1 :
          port.devices[i] = hist.pre.devices[i]

\* C8: when the reset_pulse of onewire_send_command returns a result other
\* than ONEWIRE_RESULT_OK, no bit of the command byte is written.
C8_NoWriteAfterFailedReset ==
    (op = "send_command" /\ pc = "done"
        /\ hist.lastReset # ONEWIRE_RESULT_OK)
    => hist.wbits = 0

\* C9: reset_pulse returns ONEWIRE_RESULT_OK only with tpdl_quarters >= 3,
\* and returns ONEWIRE_RESULT_COMM_ERROR whenever tpdl_quarters < 3.
C9_PresenceWidth ==
    (hist.resets >= 1 /\ pc \notin {"spin_high", "spin_low"})
    => /\ hist.lastReset = ONEWIRE_RESULT_OK => port.tpdl_quarters >= 3
       /\ port.tpdl_quarters < 3 => hist.lastReset = ONEWIRE_RESULT_COMM_ERROR

\* C9 witness: a presence pulse of one or two quarters has been rejected
C9_Witness ==
    /\ pc = "send_command_write"
    /\ bus.profile = "short"
    /\ port.tpdl_quarters \in 1 .. 2
    /\ hist.lastReset = ONEWIRE_RESULT_COMM_ERROR

\* C10: when the slave transmits the byte b least-significant bit first and
\* no read timeslot fails, onewire_read_octet returns ONEWIRE_RESULT_OK with
\* *value = b.
C10_ReadOctetValue ==
    (op = "read_octet" /\ pc = "done" /\ hist.nfaults = 0)
    => /\ ret = ONEWIRE_RESULT_OK
       /\ oct.value = bus.txbyte

\* C11: when onewire_search is called again on the same port and the same
\* fault-free bus and both calls have returned, the second call has returned
\* what the first one returned and num_devices and the device table are what
\* the first call left.
C11_RepeatedSearch ==
    (SearchDone /\ hist.nfaults = 0 /\ hist.prev # <<>>)
    => /\ ret = hist.prev[1]
       /\ port.num_devices = hist.pre.num_devices
       /\ port.devices = hist.pre.devices

\* C11 witness: the second of two searches of a bus with two devices has
\* returned with the table the first search left, a device in slot 0
C11_Witness ==
    /\ SearchDone /\ hist.nfaults = 0 /\ hist.prev # <<>>
    /\ hist.calls = 2
    /\ NumOnBus = 2
    /\ port.max_devices >= 1
    /\ port.devices[0] \in bus.devs
    /\ port.devices = hist.pre.devices

\* the texts of the result variants that have one in the source
KnownTexts ==
    {"No error", "Communication Error", "Too many devices", "No such error"}

\* text is a text for result and for no other variant
TextMatches(result, text) ==
    CASE result = ONEWIRE_RESULT_OK -> text = "No error"
      [] result = ONEWIRE_RESULT_COMM_ERROR -> text = "Communication Error"
      [] result = ONEWIRE_RESULT_NO_DEVICES -> text \notin KnownTexts
      [] result = ONEWIRE_RESULT_TOO_MANY_DEVICES -> text = "Too many devices"
      [] OTHER -> text = "No such error"

\* C12: onewire_error_to_string returns for every argument (it never reads
\* outside the table); for each of the four result variants it returns that
\* variant's own text, distinct from the other variants' texts and from the
\* fallback; for every argument >= __ONEWIRE_RESULT_MAX it returns
\* "No such error".
C12_ErrorStrings ==
    (op = "error_to_string" /\ pc \in {"done", "ub"})
    => /\ pc = "done"
       /\ TextMatches(oct.result, ret)

\* C13: once a pass of onewire_search has completed its 64 positions without
\* recording a discrepancy (the split position it leaves is the sentinel),
\* the search makes no further pass: it has returned ONEWIRE_RESULT_OK with
\* num_devices set to the number of completed passes.
C13_StopsWithoutDiscrepancy ==
    (op = "search" /\ hist.nfaults = 0 /\ pc # "ub"
        /\ loc.device_position >= 1 /\ loc.last_split_position = U8(-1))
    => /\ pc = "done"
       /\ ret = ONEWIRE_RESULT_OK
       /\ port.num_devices = loc.device_position

\* C14: once a read timeslot of a search pass has reported
\* ONEWIRE_RESULT_COMM_ERROR, onewire_search has returned
\* ONEWIRE_RESULT_COMM_ERROR (it does not go on with the pass).
C14_ReadErrorAborts ==
    (op = "search" /\ hist.readErr)
    => /\ pc = "done"
       /\ ret = ONEWIRE_RESULT_COMM_ERROR

\* C15: a pass of onewire_search that has completed its 64 positions has
\* issued exactly one reset pulse, has sent the octet 0x0F after it and has
\* written one bit per position after the octet.
C15_OneResetPerPass ==
    (op = "search" /\ pc = "pass_end")
    => /\ hist.resets = 1
       /\ hist.sent = LsbFirst(ONEWIRE_NL_CMD_SEARCH_ROM)
       /\ hist.wbits = 8 + AddrBits

\* C16: when the value bit and its complement have both been read as 1 at a
\* position, onewire_search has returned: ONEWIRE_RESULT_NO_DEVICES at
\* position 0, ONEWIRE_RESULT_COMM_ERROR at positions 1..63; no direction bit
\* was written for that position, the bits of the address from that position
\* on are still clear and the pass is not counted.
C16_NoResponse ==
    (op = "search" /\ loc.value = 1 /\ loc.inv_value = 1)
    => /\ pc = "done"
       /\ ret = IF loc.position = 0 THEN ONEWIRE_RESULT_NO_DEVICES
                ELSE ONEWIRE_RESULT_COMM_ERROR
       /\ hist.wbits = 8 + loc.position
       /\ \A p \in loc.position .. AddrBits - 1 :
             AddrBit(Slot(port, loc.device_position), p) = 0
       /\ port.max_devices >= 1 => loc.device_position < port.max_devices
       /\ port.num_devices = hist.pre.num_devices

\* C16 witness: the devices stopped responding after position 0 of the
\* second pass and the search has returned ONEWIRE_RESULT_COMM_ERROR
C16_Witness ==
    /\ SearchDone
    /\ loc.value = 1 /\ loc.inv_value = 1
    /\ loc.position >= 1
    /\ loc.device_position = 1
    /\ ret = ONEWIRE_RESULT_COMM_ERROR

\* the same at position 0: ONEWIRE_RESULT_NO_DEVICES has been returned
C16_WitnessPositionZero ==
    /\ SearchDone
    /\ loc.value = 1 /\ loc.inv_value = 1
    /\ loc.position = 0
    /\ ret = ONEWIRE_RESULT_NO_DEVICES

\* the devices whose address agrees with the bits the current pass has
\* stored at the positions below position
Agreeing(position) ==
    {d \in bus.devs :
        \A p \in 0 .. position - 1 :
            AddrBit(d, p) = AddrBit(Slot(port, loc.device_position), p)}

\* C17: on a fault-free bus, before the first and after every position of a
\* pass the devices still responding are exactly the devices whose address
\* agrees with the bits chosen so far (bit p stored at byte p / 8, bit p % 8),
\* and there is at least one; the address of a pass that has completed its
\* 64 positions, and every address stored by an earlier pass of the search,
\* is the address of a device on the bus.
C17_ActiveSetFollowsPath ==
    (op = "search" /\ hist.nfaults = 0)
    => /\ pc = "bit" => (bus.active # {} /\ bus.active = Agreeing(loc.position))
       /\ pc = "pass_end" => Cardinality(Agreeing(AddrBits)) = 1
       /\ pc \in {"pass_end", "done"} =>
             \A i \in 0 .. loc.device_position - 1 : Slot(port, i) \in bus.devs

\* C17 witness: in the second pass of a search of three devices, after the
\* second position at which addresses differ, one device is left responding
C17_Witness ==
    /\ op = "search" /\ hist.nfaults = 0 /\ pc = "bit"
    /\ NumOnBus = 3
    /\ loc.device_position = 1
    /\ loc.position = VarPos(1) + 1
    /\ Cardinality(bus.active) = 1
    /\ port.devices[0] \in bus.devs

\* C18: on a fault-free bus with N distinct devices and N <= max_devices,
\* onewire_search does not return ONEWIRE_RESULT_TOO_MANY_DEVICES.
C18_TooManyOnlyWhenOverCapacity ==
    (SearchDone /\ hist.nfaults = 0 /\ NumOnBus <= port.max_devices)
    => ret # ONEWIRE_RESULT_TOO_MANY_DEVICES

\* C19: onewire_search writes the device table at slots device_position with
\* 0 <= device_position < max_devices only, for every max_devices and every
\* bus behaviour: it never writes outside the table.
C19_WritesInsideTable ==
    op = "search"
    => /\ pc # "ub"
       /\ DOMAIN port.behind = {}
       /\ pc \in {"reset", "spin_high", "spin_low", "send_command",
                  "send_command_write", "bit"}
             => loc.device_position < port.max_devices

\* C20: every call of onewire_search returns, whatever the bus does; the
\* spin counters of reset_pulse stay within tpdh_quarters <= 7 and
\* tpdl_quarters <= 19, and with max_devices >= 1 the search completes at
\* most max_devices passes.
C20_SearchReturns ==
    /\ [](port.tpdh_quarters <= TpdhLimit + 1
            /\ port.tpdl_quarters <= TpdlLimit + 1)
    /\ []((op = "search" /\ port.max_devices >= 1)
            => loc.device_position <= port.max_devices)
    /\ ((op = "search" /\ pc = "pass") ~> (pc = "done"))

====
